---- MODULE Spec2Model ----
(***************************************************************************)
(* A model of ConfigParser.hpp: the typed options (Option<T> for stream-   *)
(* extractable scalars, Option<std::vector<T>>, Option<enum>), and the     *)
(* ConfigParser node (option registry, line parser, subcommands).          *)
(*                                                                         *)
(* Text is a sequence of one-character strings, so that extraction,        *)
(* splitting and searching are computed character by character as the      *)
(* standard streams and std::string compute them.                          *)
(***************************************************************************)
EXTENDS Integers, Sequences, FiniteSets, TLC

VARIABLES
    nodes,          \* heap of live ConfigParser objects: id -> its fields
    nextId,         \* the next object identity make_unique hands out
    mem,            \* the host variables the options are bound to (ref_)
    file,           \* the lines of the configuration file parse() reads
    defaultArgs,    \* history: per option, the last value given to default_val
    call            \* the last call: operation, arguments, host variables
                    \* before it, and the exception it threw (or none)

vars == <<nodes, nextId, mem, file, defaultArgs, call>>

-----------------------------------------------------------------------------
(* Bounds of the model.                                                    *)

MaxLen == 3         \* longest raw string handed to setValue
MaxExpected == 2    \* largest count handed to expected(n)
MaxLines == 3       \* most lines in the configuration file
MaxNodes == 4       \* most ConfigParser objects ever allocated

-----------------------------------------------------------------------------
(* Text.                                                                   *)

RawChars == {"1", "-", "a", " ", ","}

RECURSIVE StringsUpTo(_, _)
StringsUpTo(chars, n) ==
    IF n = 0 THEN {<<>>}
    ELSE LET shorter == StringsUpTo(chars, n - 1)
         IN shorter \cup {Append(s, c) : s \in {t \in shorter : Len(t) = n - 1}, c \in chars}

Raws == StringsUpTo(RawChars, MaxLen)

\* std::isspace in the "C" locale, as the istream sentry uses it.
IsSpace(c) == c \in {" ", "\t", "\n", "\r"}

IsDigit(c) == c \in {"0", "1", "2", "3", "4", "5", "6", "7", "8", "9"}

DigitVal(c) ==
    CASE c = "0" -> 0 [] c = "1" -> 1 [] c = "2" -> 2 [] c = "3" -> 3
      [] c = "4" -> 4 [] c = "5" -> 5 [] c = "6" -> 6 [] c = "7" -> 7
      [] c = "8" -> 8 [] c = "9" -> 9

DigitChar(d) == <<"0", "1", "2", "3", "4", "5", "6", "7", "8", "9">>[d + 1]

RECURSIVE SkipWs(_)
SkipWs(s) == IF s # <<>> /\ IsSpace(Head(s)) THEN SkipWs(Tail(s)) ELSE s

RECURSIVE DigitPrefixLen(_)
DigitPrefixLen(s) ==
    IF s # <<>> /\ IsDigit(Head(s)) THEN 1 + DigitPrefixLen(Tail(s)) ELSE 0

RECURSIVE DigitsValue(_, _)
DigitsValue(s, acc) ==
    IF s = <<>> THEN acc ELSE DigitsValue(Tail(s), 10 * acc + DigitVal(Head(s)))

RECURSIVE WordLen(_)
WordLen(s) == IF s # <<>> /\ ~IsSpace(Head(s)) THEN 1 + WordLen(Tail(s)) ELSE 0

\* std::numeric_limits<int>: the range of the T val the stream extracts into.
IntMax == 2147483647
IntMin == -IntMax - 1

\* iss >> val for T = int: skip white space, an optional sign, then digits.
\* failbit is set when no digit is read or the value does not fit; characters
\* after the digits stay in the stream and set nothing.
ExtractInt(s) ==
    LET t == SkipWs(s)
        signed == t # <<>> /\ Head(t) \in {"+", "-"}
        u == IF signed THEN Tail(t) ELSE t
        n == DigitPrefixLen(u)
        mag == DigitsValue(SubSeq(u, 1, n), 0)
        v == IF signed /\ Head(t) = "-" THEN -mag ELSE mag
    IN  IF n = 0 THEN [fail |-> TRUE, val |-> 0]
        ELSE IF v > IntMax THEN [fail |-> TRUE, val |-> IntMax]
        ELSE IF v < IntMin THEN [fail |-> TRUE, val |-> IntMin]
        ELSE [fail |-> FALSE, val |-> v]

\* iss >> val for T = std::string: skip white space, then the characters up to
\* the next white space; failbit is set when no character is read.
ExtractWord(s) ==
    LET t == SkipWs(s)
        n == WordLen(t)
    IN  IF n = 0 THEN [fail |-> TRUE, val |-> <<>>]
        ELSE [fail |-> FALSE, val |-> SubSeq(t, 1, n)]

RECURSIVE NatToStr(_)
NatToStr(n) ==
    IF n < 10 THEN <<DigitChar(n)>>
    ELSE Append(NatToStr(n \div 10), DigitChar(n % 10))

\* oss << val for an integer.
IntToStr(n) == IF n < 0 THEN <<"-">> \o NatToStr(-n) ELSE NatToStr(n)

\* oss << val: U is an integer or a string (written as it is).
ToStream(u) == IF u.t = "int" THEN IntToStr(u.v) ELSE u.v

-----------------------------------------------------------------------------
(* Exceptions.                                                             *)

NoError == [type |-> "none", what |-> ""]

Thrown(msg) == [type |-> "std::runtime_error", what |-> msg]

-----------------------------------------------------------------------------
(* Typed options.  An option is [kind, ref_, defaultVal_, expectedCount_]; *)
(* ref_ names the host variable it is bound to.                            *)

ScalarKinds == {"int", "string"}

\* Option<T>::setValue, T extractable from a stream.  cur is the bound variable.
ScalarSetValue(kind, cur, str) ==
    LET x == IF kind = "int" THEN ExtractInt(str) ELSE ExtractWord(str)
    IN  IF ~x.fail
        THEN [val |-> x.val, err |-> NoError]
        ELSE [val |-> cur, err |-> Thrown("Failed to parse value")]

\* Option<T (enum)>::setValue: the underlying integer, then static_cast<T>.
EnumSetValue(cur, str) ==
    LET x == ExtractInt(str)
    IN  IF ~x.fail
        THEN [val |-> x.val, err |-> NoError]
        ELSE [val |-> cur, err |-> Thrown("Failed to parse enum value")]

\* The tokens std::getline(iss, token, ',') yields until it fails: a token ends
\* at a comma or at the end of the text, and nothing follows a final comma.
RECURSIVE Tokens(_)
Tokens(s) ==
    IF s = <<>> THEN <<>>
    ELSE LET commas == {i \in 1..Len(s) : s[i] = ","}
         IN  IF commas = {} THEN <<s>>
             ELSE LET p == CHOOSE i \in commas : \A j \in commas : i <= j
                  IN  <<SubSeq(s, 1, p - 1)>> \o Tokens(SubSeq(s, p + 1, Len(s)))

\* The while loop of Option<std::vector<T>>::setValue: push each token's
\* element onto acc, and throw at the first token that does not extract.
RECURSIVE PushTokens(_, _)
PushTokens(toks, acc) ==
    IF toks = <<>> THEN [val |-> acc, err |-> NoError]
    ELSE LET x == ExtractInt(Head(toks))
         IN  IF ~x.fail
             THEN PushTokens(Tail(toks), Append(acc, x.val))
             ELSE [val |-> acc, err |-> Thrown("Parse error in vector element")]

\* The clear left out: the elements are appended to what the sequence held.
ClearRefKeeps(cur) == cur

\* ref_.clear() made by Option<std::vector<T>>::setValue before it parses.
ClearRef(cur) == <<>>

\* Option<std::vector<T>>::setValue, T = int.
VectorSetValue(cur, expectedCount, str) ==
    LET r == PushTokens(Tokens(str), ClearRef(cur))
    IN  IF r.err # NoError THEN r
        ELSE IF expectedCount > 0 /\ Len(r.val) # expectedCount
        THEN [val |-> r.val, err |-> Thrown("Expected elements")]
        ELSE r

\* OptionBase::setValue, dispatched on the concrete option.
OptionSetValue(opt, cur, str) ==
    CASE opt.kind \in ScalarKinds -> ScalarSetValue(opt.kind, cur, str)
      [] opt.kind = "enum" -> EnumSetValue(cur, str)
      [] opt.kind = "vector" -> VectorSetValue(cur, opt.expectedCount_, str)

\* The test applyDefault makes before it calls setValue.
HasDefault(opt) == opt.defaultVal_ # <<>>

\* OptionBase::applyDefault.
OptionApplyDefault(opt, cur) ==
    IF HasDefault(opt)
    THEN OptionSetValue(opt, cur, opt.defaultVal_)
    ELSE [val |-> cur, err |-> NoError]

\* Option(name, ref): no default, no expected count.
NewOption(kind, ref) ==
    [kind |-> kind, ref_ |-> ref, defaultVal_ |-> <<>>, expectedCount_ |-> 0]

-----------------------------------------------------------------------------
(* The ConfigParser node.                                                  *)

NullPtr == 0
RootId == 1

\* ConfigParser(delimiter): empty registry, no subcommand, none active.
NewParser(name, delimiter) ==
    [name_ |-> name, delimiter_ |-> delimiter, options_ |-> <<>>,
     subcommands_ |-> <<>>, active_subcommand_ |-> NullPtr]

\* The default argument of ConfigParser's constructor.
DefaultDelimiter == <<":">>

\* line.empty() || line[0] == '#'
SkipLine(line) == line = <<>> \/ line[1] = "#"

\* Whether sub occurs in s at (1-based) position p.
OccursAt(s, sub, p) ==
    /\ p + Len(sub) - 1 <= Len(s)
    /\ \A k \in 1..Len(sub) : s[p + k - 1] = sub[k]

\* line.find(delimiter_): the 1-based position of the first occurrence, or 0
\* for std::string::npos.
Find(s, sub) ==
    LET hits == {p \in 1..(Len(s) + 1) : OccursAt(s, sub, p)}
    IN  IF hits = {} THEN 0 ELSE CHOOSE p \in hits : \A q \in hits : p <= q

\* line.substr(0, pos)
ArgName(line, pos) == SubSeq(line, 1, pos - 1)

\* The value taken from one character after pos, as for a delimiter of length 1.
ValuePartOneChar(line, pos, delimiter) == SubSeq(line, pos + 1, Len(line))

\* line.substr(pos + delimiter_.length())
ValuePart(line, pos, delimiter) == SubSeq(line, pos + Len(delimiter), Len(line))

\* The while loop of ConfigParser::parse from line i on, with the host
\* variables m: the exception of a setValue leaves the loop at once.  line is
\* the index of the line that threw (0 when parse returned).
RECURSIVE ParseLines(_, _, _, _)
ParseLines(node, m, lines, i) ==
    IF i > Len(lines) THEN [mem |-> m, err |-> NoError, line |-> 0]
    ELSE LET line == lines[i]
             pos == Find(line, node.delimiter_)
         IN  IF SkipLine(line) \/ pos = 0
             THEN ParseLines(node, m, lines, i + 1)
             ELSE LET arg_name == ArgName(line, pos)
                      value == ValuePart(line, pos, node.delimiter_)
                  IN  IF arg_name \in DOMAIN node.options_
                      THEN LET opt == node.options_[arg_name]
                               r == OptionSetValue(opt, m[opt.ref_], value)
                               m2 == [m EXCEPT ![opt.ref_] = r.val]
                           IN  IF r.err # NoError
                               THEN [mem |-> m2, err |-> r.err, line |-> i]
                               ELSE ParseLines(node, m2, lines, i + 1)
                      ELSE ParseLines(node, m, lines, i + 1)

\* ConfigParser::parse on the lines of the file.
ParseFile(node, m, lines) == ParseLines(node, m, lines, 1)

\* The nodes a node owns through subcommands_, itself included.
RECURSIVE Owned(_, _)
Owned(heap, id) ==
    LET subs == heap[id].subcommands_
        kids == {subs[n] : n \in DOMAIN subs}
    IN  {id} \cup UNION {Owned(heap, k) : k \in kids}

\* subcommands_[name] = std::move(sub): the node the slot held, if any, is
\* destroyed with everything it owns.
Destroyed(heap, id, name) ==
    IF name \in DOMAIN heap[id].subcommands_
    THEN Owned(heap, heap[id].subcommands_[name])
    ELSE {}

\* add_option(name, variable): options_[name] = a new option bound to variable.
AddOption(node, name, kind, ref) ==
    [node EXCEPT !.options_ = (name :> NewOption(kind, ref)) @@ @]

-----------------------------------------------------------------------------
(* Operations.  Every operation records itself in call.                    *)

NoCall ==
    [op |-> "none", node |-> NullPtr, name |-> <<>>, arg |-> <<>>,
     pre |-> <<>>, err |-> NoError]

Called(op, id, name, arg, err) ==
    [op |-> op, node |-> id, name |-> name, arg |-> arg, pre |-> mem, err |-> err]

\* opt->setValue(raw), through the handle add_option returned.
SetValue(id, name, raw) ==
    /\ id \in DOMAIN nodes
    /\ name \in DOMAIN nodes[id].options_
    /\ LET opt == nodes[id].options_[name]
           r == OptionSetValue(opt, mem[opt.ref_], raw)
       IN  /\ mem' = [mem EXCEPT ![opt.ref_] = r.val]
           /\ call' = Called("setValue", id, name, raw, r.err)
    /\ UNCHANGED <<nodes, nextId, file, defaultArgs>>

\* opt->expected(n)
Expected(id, name, n) ==
    /\ id \in DOMAIN nodes
    /\ name \in DOMAIN nodes[id].options_
    /\ nodes' = [nodes EXCEPT ![id].options_[name].expectedCount_ = n]
    /\ call' = Called("expected", id, name, n, NoError)
    /\ UNCHANGED <<nextId, mem, file, defaultArgs>>

\* opt->default_val(u): the enum option casts u to the underlying integer, so
\* it takes integers only.
DefaultVal(id, name, u) ==
    /\ id \in DOMAIN nodes
    /\ name \in DOMAIN nodes[id].options_
    /\ nodes[id].options_[name].kind = "enum" => u.t = "int"
    /\ nodes' = [nodes EXCEPT ![id].options_[name].defaultVal_ = ToStream(u)]
    /\ defaultArgs' = (<<id, name>> :> u) @@ defaultArgs
    /\ call' = Called("default_val", id, name, u, NoError)
    /\ UNCHANGED <<nextId, mem, file>>

\* opt->applyDefault()
ApplyDefault(id, name) ==
    /\ id \in DOMAIN nodes
    /\ name \in DOMAIN nodes[id].options_
    /\ LET opt == nodes[id].options_[name]
           r == OptionApplyDefault(opt, mem[opt.ref_])
       IN  /\ mem' = [mem EXCEPT ![opt.ref_] = r.val]
           /\ call' = Called("applyDefault", id, name, <<>>, r.err)
    /\ UNCHANGED <<nodes, nextId, file, defaultArgs>>

\* node.parse(configFile)
Parse(id) ==
    /\ id \in DOMAIN nodes
    /\ LET r == ParseFile(nodes[id], mem, file)
       IN  /\ mem' = r.mem
           /\ call' = Called("parse", id, <<>>, file, r.err)
    /\ UNCHANGED <<nodes, nextId, file, defaultArgs>>

\* node.add_subcommand(name)
AddSubcommand(id, name) ==
    /\ id \in DOMAIN nodes
    /\ nextId <= MaxNodes
    /\ LET dead == Destroyed(nodes, id, name)
           kept == (DOMAIN nodes \ dead) \cup {nextId}
       IN  nodes' = [k \in kept |->
                        IF k = nextId THEN NewParser(name, DefaultDelimiter)
                        ELSE IF k = id
                        THEN [nodes[id] EXCEPT !.subcommands_ = (name :> nextId) @@ @]
                        ELSE nodes[k]]
    /\ nextId' = nextId + 1
    /\ call' = Called("add_subcommand", id, name, <<>>, NoError)
    /\ UNCHANGED <<mem, file, defaultArgs>>

\* node.parse_subcommand(name)
ParseSubcommand(id, name) ==
    /\ id \in DOMAIN nodes
    /\ IF name \in DOMAIN nodes[id].subcommands_
       THEN /\ nodes' = [nodes EXCEPT ![id].active_subcommand_ =
                                          nodes[id].subcommands_[name]]
            /\ call' = Called("parse_subcommand", id, name, <<>>, NoError)
       ELSE /\ nodes' = nodes
            /\ call' = Called("parse_subcommand", id, name, <<>>,
                              Thrown("Unknown subcommand"))
    /\ UNCHANGED <<nextId, mem, file, defaultArgs>>

-----------------------------------------------------------------------------
(* One option of each kind, exercised through its handle.                  *)

Kinds == {"int", "string", "enum", "vector"}

OptName == <<"o">>

\* The host variable as the host declared it.
InitValue(kind) == IF kind \in {"int", "enum"} THEN 0 ELSE <<>>

\* ConfigParser p; p.add_option("o", x)->expected(n);
InitOption ==
    /\ \E kind \in Kinds :
       \E n \in (IF kind = "vector" THEN 0..MaxExpected ELSE {0}) :
          /\ nodes = (RootId :>
                        [AddOption(NewParser("", DefaultDelimiter), OptName, kind, "x")
                            EXCEPT !.options_[OptName].expectedCount_ = n])
          /\ mem = ("x" :> InitValue(kind))
    /\ nextId = RootId + 1
    /\ file = <<>>
    /\ defaultArgs = <<>>
    /\ call = NoCall

NextOption == \E raw \in Raws : SetValue(RootId, OptName, raw)

SpecOption == InitOption /\ [][NextOption]_vars

DefaultInputs ==
    {[t |-> "int", v |-> 7], [t |-> "int", v |-> -12]}
    \cup {[t |-> "str", v |-> s] : s \in {<<>>, <<"1">>, <<"a">>, <<"1", "a">>,
                                           <<"1", ",", "2">>, <<"1", ",", "a">>}}

NextDefault ==
    \/ \E u \in DefaultInputs : DefaultVal(RootId, OptName, u)
    \/ ApplyDefault(RootId, OptName)
    \/ \E n \in 0..MaxExpected : Expected(RootId, OptName, n)

SpecDefault == InitOption /\ [][NextDefault]_vars

-----------------------------------------------------------------------------
(* A parser with options and a subcommand, and a configuration file.       *)

Delimiters == {<<":">>, <<":", ":">>}

Lines ==
    { <<>>,                                 \* an empty line
      <<" ">>,                              \* a line of one space
      <<"#", "a", ":", "2">>,               \* #a:2
      <<" ", "#", ":", "2">>,               \* (space)#:2
      <<"a", ":", "1">>,                    \* a:1
      <<"a", ":", "2">>,                    \* a:2
      <<"a", ":", ":", "2">>,               \* a::2
      <<"v", ":", "1", ",", "2">>,          \* v:1,2
      <<"v", ":", "2">>,                    \* v:2
      <<"v", ":", ":", "1">>,               \* v::1
      <<"c", ":", ":", "1">> }              \* c::1

RECURSIVE SeqsUpTo(_, _)
SeqsUpTo(S, n) ==
    IF n = 0 THEN {<<>>}
    ELSE LET shorter == SeqsUpTo(S, n - 1)
         IN shorter \cup {Append(f, x) : f \in {g \in shorter : Len(g) = n - 1}, x \in S}

Files == SeqsUpTo(Lines, MaxLines)

SubId == RootId + 1

\* The host's registrations: at the root, a:int, v:vector<int> with
\* expected(n) and, when odd, an int option named " #"; the subcommand "sub"
\* with a:int and c:int of its own.
Registered(delimiter, n, odd) ==
    LET r1 == AddOption(NewParser("", delimiter), <<"a">>, "int", "a")
        r2 == [AddOption(r1, <<"v">>, "vector", "v")
                  EXCEPT !.options_[<<"v">>].expectedCount_ = n]
        r3 == IF odd THEN AddOption(r2, <<" ", "#">>, "int", "h") ELSE r2
        root == [r3 EXCEPT !.subcommands_ = ("sub" :> SubId)]
        s1 == AddOption(NewParser("sub", DefaultDelimiter), <<"a">>, "int", "sa")
        sub == AddOption(s1, <<"c">>, "int", "sc")
    IN  (RootId :> root) @@ (SubId :> sub)

InitParse ==
    /\ \E delimiter \in Delimiters, n \in {0, 2}, odd \in BOOLEAN :
          nodes = Registered(delimiter, n, odd)
    /\ nextId = SubId + 1
    /\ mem = [x \in {"a", "h", "sa", "sc"} |-> 0] @@ ("v" :> <<7>>)
    /\ file \in Files
    /\ defaultArgs = <<>>
    /\ call = NoCall

NextParse == Parse(RootId)

SpecParse == InitParse /\ [][NextParse]_vars

-----------------------------------------------------------------------------
(* Subcommands.                                                            *)

SubNames == {"s1", "s2"}

InitSub ==
    /\ nodes = (RootId :> NewParser("", DefaultDelimiter))
    /\ nextId = RootId + 1
    /\ mem = <<>>
    /\ file = <<>>
    /\ defaultArgs = <<>>
    /\ call = NoCall

NextSub ==
    \/ \E id \in DOMAIN nodes, name \in SubNames : AddSubcommand(id, name)
    \/ \E id \in DOMAIN nodes, name \in SubNames : ParseSubcommand(id, name)

SpecSub == InitSub /\ [][NextSub]_vars

-----------------------------------------------------------------------------
(* Vocabulary of the properties: what the text of a value or of a line is, *)
(* said without the streams and the searches of the code.                  *)

CalledNode == nodes[call.node]

CalledOption == CalledNode.options_[call.name]

NonSpaces(s) == {i \in 1..Len(s) : s[i] # " "}

\* s without the spaces around it.
Trimmed(s) ==
    IF NonSpaces(s) = {} THEN <<>>
    ELSE LET lo == CHOOSE i \in NonSpaces(s) : \A j \in NonSpaces(s) : i <= j
             hi == CHOOSE i \in NonSpaces(s) : \A j \in NonSpaces(s) : i >= j
         IN  SubSeq(s, lo, hi)

\* An integer literal: an optional sign and one digit or more, spaces around
\* it allowed, nothing else.
ValidIntLiteral(s) ==
    LET t == Trimmed(s)
        body == IF t # <<>> /\ t[1] \in {"+", "-"} THEN Tail(t) ELSE t
    IN  body # <<>> /\ \A i \in 1..Len(body) : IsDigit(body[i])

\* A string literal: one word, spaces around it allowed.
ValidWordLiteral(s) ==
    LET t == Trimmed(s) IN t # <<>> /\ \A i \in 1..Len(t) : t[i] # " "

ValidLiteral(kind, s) ==
    IF kind = "string" THEN ValidWordLiteral(s) ELSE ValidIntLiteral(s)

\* A valid literal followed by further text that makes the whole invalid.
LiteralThenMore(kind, s) ==
    /\ ~ValidLiteral(kind, s)
    /\ \E n \in 1..(Len(s) - 1) : ValidLiteral(kind, SubSeq(s, 1, n))

IsParseError(e) ==
    e.type # "none" /\ e.what \in {"Failed to parse value", "Failed to parse enum value",
                                   "Parse error in vector element"}

IsCountMismatch(e) == e.type # "none" /\ e.what = "Expected elements"

\* The comma-separated pieces of a text (none for the empty text).
RECURSIVE Pieces(_, _)
Pieces(s, acc) ==
    IF s = <<>> THEN <<acc>>
    ELSE IF Head(s) = "," THEN <<acc>> \o Pieces(Tail(s), <<>>)
    ELSE Pieces(Tail(s), Append(acc, Head(s)))

PiecesOf(s) == IF s = <<>> THEN <<>> ELSE Pieces(s, <<>>)

AllPiecesValid(s) == \A i \in 1..Len(PiecesOf(s)) : ValidIntLiteral(PiecesOf(s)[i])

\* name, then the delimiter, start the line, and the delimiter does not occur
\* earlier: name is the text before the first occurrence of the delimiter.
HasNamePart(line, d, name) ==
    /\ Len(line) >= Len(name) + Len(d)
    /\ SubSeq(line, 1, Len(name) + Len(d)) = name \o d
    /\ \A q \in 1..Len(name) : SubSeq(line, q, q + Len(d) - 1) # d

\* The text after that first occurrence.
AfterName(line, d, name) == SubSeq(line, Len(name) + Len(d) + 1, Len(line))

HasDelimiter(line, d) ==
    \E q \in 1..(Len(line) - Len(d) + 1) : SubSeq(line, q, q + Len(d) - 1) = d

\* A line parse hands to the option called name.
NamesOption(line, d, name) ==
    /\ line # <<>> /\ line[1] # "#"
    /\ HasNamePart(line, d, name)

\* The index of the last line of f naming the option, 0 when none does.
LastNaming(f, d, name) ==
    LET ks == {k \in 1..Len(f) : NamesOption(f[k], d, name)}
    IN  IF ks = {} THEN 0 ELSE CHOOSE k \in ks : \A j \in ks : j <= k

\* The value a text denotes for an option of the kind.
Denoted(kind, text) ==
    IF kind = "vector"
    THEN [i \in 1..Len(PiecesOf(text)) |-> ExtractInt(PiecesOf(text)[i]).val]
    ELSE IF kind = "string" THEN ExtractWord(text).val
    ELSE ExtractInt(text).val

\* A comment or a blank line: nothing, or '#', after the leading spaces.
IsCommentOrBlank(line) ==
    NonSpaces(line) = {} \/ Trimmed(line)[1] = "#"

RECURSIVE WithoutComments(_)
WithoutComments(f) ==
    IF f = <<>> THEN <<>>
    ELSE IF IsCommentOrBlank(Head(f)) THEN WithoutComments(Tail(f))
    ELSE <<Head(f)>> \o WithoutComments(Tail(f))

-----------------------------------------------------------------------------
(* Properties.                                                             *)

\* C1: setValue of a scalar or enum option on a text that is no valid literal
\* of its type (the empty text included) fails with a parse error and leaves
\* the bound variable as it was.
C1_InvalidLiteralRejected ==
    (/\ call.op = "setValue"
     /\ CalledOption.kind \in {"int", "string", "enum"}
     /\ ~ValidLiteral(CalledOption.kind, call.arg))
    => (IsParseError(call.err) /\ mem = call.pre)

\* C1, for the texts that do not even start with a literal: setValue fails
\* with a parse error and leaves the bound variable as it was.
C1_NoLiteralRejected ==
    (/\ call.op = "setValue"
     /\ CalledOption.kind \in {"int", "string", "enum"}
     /\ \A n \in 1..Len(call.arg) : ~ValidLiteral(CalledOption.kind, SubSeq(call.arg, 1, n)))
    => (IsParseError(call.err) /\ mem = call.pre)

\* C2: a setValue of a sequence option that fails (a token that does not
\* parse, or a count that differs from the expected one) leaves the bound
\* sequence exactly as it was.
C2_FailedSequenceUntouched ==
    (/\ call.op = "setValue"
     /\ CalledOption.kind = "vector"
     /\ call.err # NoError)
    => mem = call.pre

\* C3: setValue of a scalar option on a valid literal followed by further
\* text fails, and does not write the value of the leading part.
C3_WholeTextConsumed ==
    (/\ call.op = "setValue"
     /\ CalledOption.kind \in ScalarKinds
     /\ LiteralThenMore(CalledOption.kind, call.arg))
    => (call.err # NoError /\ mem = call.pre)

\* C4: with expected(n), n > 0, and every token valid, setValue fails with a
\* count mismatch exactly when the number of elements differs from n; with
\* n = 0 it never fails for the count; and the count mismatch is an error of
\* another kind than the failure to parse an element.
C4_CountMismatchDistinct ==
    (call.op = "setValue" /\ CalledOption.kind = "vector")
    => LET n == CalledOption.expectedCount_
           count == Len(PiecesOf(call.arg))
       IN  /\ AllPiecesValid(call.arg) =>
                 IF n > 0
                 THEN /\ IsCountMismatch(call.err) <=> count # n
                      /\ count = n => call.err = NoError
                 ELSE call.err = NoError
           /\ IsCountMismatch(call.err) =>
                 call.err.type # Thrown("Parse error in vector element").type

\* C4, the part about the count alone (the error kinds left out).
C4_CountRule ==
    (call.op = "setValue" /\ CalledOption.kind = "vector")
    => LET n == CalledOption.expectedCount_
           count == Len(PiecesOf(call.arg))
       IN  /\ AllPiecesValid(call.arg) =>
                 IF n > 0
                 THEN /\ IsCountMismatch(call.err) <=> count # n
                      /\ count = n => call.err = NoError
                 ELSE call.err = NoError

\* C5: default_val never changes the bound variable; applyDefault does
\* nothing when default_val was never called on the option, and otherwise
\* ends exactly as setValue on the text of the value last given to
\* default_val ends, also when that text is empty.
C5_ApplyDefaultIsSetValue ==
    /\ call.op = "default_val" => mem = call.pre
    /\ call.op = "applyDefault" =>
          LET key == <<call.node, call.name>>
              x == CalledOption.ref_
          IN  IF key \notin DOMAIN defaultArgs
              THEN mem = call.pre /\ call.err = NoError
              ELSE LET r == OptionSetValue(CalledOption, call.pre[x],
                                           ToStream(defaultArgs[key]))
                   IN  mem[x] = r.val /\ call.err = r.err

\* C5, with the default of an empty text left out: default_val never changes
\* the bound variable, applyDefault does nothing when default_val was never
\* called, and ends as setValue on the text of a default that is not empty.
C5_NonEmptyDefaults ==
    /\ call.op = "default_val" => mem = call.pre
    /\ call.op = "applyDefault" =>
          LET key == <<call.node, call.name>>
              x == CalledOption.ref_
          IN  IF key \notin DOMAIN defaultArgs
              THEN mem = call.pre /\ call.err = NoError
              ELSE ToStream(defaultArgs[key]) # <<>> =>
                     LET r == OptionSetValue(CalledOption, call.pre[x],
                                             ToStream(defaultArgs[key]))
                     IN  mem[x] = r.val /\ call.err = r.err

\* C6: after a parse in which no line fails, every option named by a line
\* holds the value of the last line naming it, whatever earlier lines and the
\* value before the parse were (a sequence holds the elements of the last
\* line only), and parsing the same lines again changes nothing.
C6_LastWriteWins ==
    (call.op = "parse" /\ call.err = NoError)
    => LET node == CalledNode
           d == node.delimiter_
           again == ParseFile(node, mem, call.arg)
       IN  /\ \A name \in DOMAIN node.options_ :
                 LET k == LastNaming(call.arg, d, name)
                     opt == node.options_[name]
                 IN  k # 0 => mem[opt.ref_] =
                                 Denoted(opt.kind, AfterName(call.arg[k], d, name))
           /\ again.err = NoError
           /\ again.mem = mem

C6_Witness ==
    /\ call.op = "parse" /\ call.err = NoError
    /\ call.pre["v"] = <<7>> /\ mem["v"] = <<2>>
    /\ \E j, k \in 1..Len(call.arg) :
          /\ j < k
          /\ NamesOption(call.arg[j], CalledNode.delimiter_, <<"v">>)
          /\ NamesOption(call.arg[k], CalledNode.delimiter_, <<"v">>)
          /\ call.arg[j] # call.arg[k]

\* C7: comment lines and blank lines (a comment line is one whose first
\* character after the leading spaces is '#') never change an option and
\* never make parse fail: parse ends as it ends on the file without them.
C7_CommentsAndBlanksIgnored ==
    call.op = "parse"
    => LET r == ParseFile(CalledNode, call.pre, WithoutComments(call.arg))
       IN  mem = r.mem /\ call.err = r.err

\* C7, for the lines the code takes for comments: the empty line and the
\* line whose first character is '#'.
C7_SkippedLinesIgnored ==
    call.op = "parse"
    => LET keep(l) == ~SkipLine(l)
           r == ParseFile(CalledNode, call.pre, SelectSeq(call.arg, keep))
       IN  mem = r.mem /\ call.err = r.err

\* C8: a line without the delimiter, and a line whose text before the first
\* delimiter is no name registered at the node, raise no error and change
\* nothing; a line whose name part matches changes that option only, never
\* another option of the node or of a subcommand, and the value it hands over
\* is all the text after the first delimiter, whatever the delimiter's length.
C8_PermissiveAndLocal ==
    call.op = "parse"
    => LET node == CalledNode
           d == node.delimiter_
           f == call.arg
           named(k) == {name \in DOMAIN node.options_ : HasNamePart(f[k], d, name)}
       IN  /\ \A x \in DOMAIN mem :
                 mem[x] # call.pre[x] =>
                    \E k \in 1..Len(f) : \E name \in named(k) :
                       node.options_[name].ref_ = x
           /\ (\A k \in 1..Len(f) : named(k) = {}) =>
                 (call.err = NoError /\ mem = call.pre)
           /\ \A name \in DOMAIN node.options_ :
                 (Len(f) = 1 /\ HasNamePart(f[1], d, name)) =>
                    LET opt == node.options_[name]
                        r == OptionSetValue(opt, call.pre[opt.ref_],
                                            AfterName(f[1], d, name))
                    IN  mem[opt.ref_] = r.val /\ call.err = r.err

C8_Witness ==
    /\ call.op = "parse" /\ call.err = NoError
    /\ Len(CalledNode.delimiter_) = 2
    /\ mem["a"] = 2 /\ call.pre["a"] = 0
    /\ \E k \in 1..Len(call.arg) : ~HasDelimiter(call.arg[k], CalledNode.delimiter_)
    /\ \E k \in 1..Len(call.arg) :
          HasNamePart(call.arg[k], CalledNode.delimiter_, <<"c">>)

\* C9: parse stops at the first line whose setValue fails: what the earlier
\* lines assigned stays, no later line is applied; and when no line fails
\* parse reaches the end of the file and succeeds.
C9_FailFast ==
    call.op = "parse"
    => LET node == CalledNode
           d == node.delimiter_
           f == call.arg
           namedUpTo(name, k) == \E j \in 1..k : NamesOption(f[j], d, name)
       IN  \E k \in 0..Len(f) :
             LET before == ParseFile(node, call.pre, SubSeq(f, 1, k))
             IN  /\ before.err = NoError
                 /\ call.err = NoError => (k = Len(f) /\ mem = before.mem)
                 /\ call.err # NoError =>
                       /\ k < Len(f)
                       /\ ParseFile(node, before.mem, <<f[k + 1]>>).err = call.err
                       /\ \A name \in DOMAIN node.options_ :
                             LET x == node.options_[name].ref_
                             IN  /\ namedUpTo(name, k) => mem[x] = before.mem[x]
                                 /\ ~namedUpTo(name, k + 1) => mem[x] = call.pre[x]

\* C9, with the offending line's own effect on its option let through.
C9_StopsAtOffendingLine ==
    call.op = "parse"
    => \E k \in 0..Len(call.arg) :
          LET before == ParseFile(CalledNode, call.pre, SubSeq(call.arg, 1, k))
          IN  /\ before.err = NoError
              /\ call.err = NoError => (k = Len(call.arg) /\ mem = before.mem)
              /\ call.err # NoError =>
                    /\ k < Len(call.arg)
                    /\ LET last == ParseFile(CalledNode, before.mem, <<call.arg[k + 1]>>)
                       IN  last.err = call.err /\ last.mem = mem

\* C10: the active subcommand of every node is none, or a child the node's
\* subcommand mapping owns now; never a child that was replaced or destroyed.
C10_ActiveSubcommandOwned ==
    \A id \in DOMAIN nodes :
        LET a == nodes[id].active_subcommand_
            subs == nodes[id].subcommands_
        IN  a = NullPtr \/ (a \in DOMAIN nodes /\ \E n \in DOMAIN subs : subs[n] = a)

====
